---- MODULE Spec2Model ----
(***************************************************************************)
(* A model of the CCP-NC/metrics traffic collector:                        *)
(*   - the summary store  (collect_traffic.py, _update_summary),           *)
(*   - the combiner       (combine_json_files.py),                         *)
(*   - the metric fetcher (collect_traffic.py, _make_request),             *)
(*   - the reducers       (collect_traffic.py, _process_referrers/_paths), *)
(*   - the collection run (collect_traffic.py, collect_metrics and main).  *)
(* Each part has its own specification over its own variables; the other   *)
(* parts' variables stay at their initial values.                          *)
(***************************************************************************)
EXTENDS Integers, Sequences, FiniteSets, TLC

VARIABLES
    summary,      \* traffic-stats/summary.csv: [exists, cols, rows]
    lastRec,      \* the daily_data of the last _update_summary call
    nUpserts,     \* number of _update_summary calls made so far
    dataType,     \* the metric of the (repository, metric) pair being combined
    snapshots,    \* traffic-stats/{repo}-{metric}-{date}.json, by date
    combinedFile, \* traffic-stats/{repo}-{metric}-combined.json
    lastRun,      \* outcome of the last combiner run since the last write
    cache,        \* self._cache: endpoint -> cached payload, or NotCached
    fpc,          \* where the current _make_request call is
    endpoint,     \* the endpoint of the current call
    attempt,      \* the loop variable of "for attempt in range(retries)"
    result,       \* what the call returned
    trace,        \* the requests and sleeps of the current call, in order
    returned,     \* history: what the last finished call of each endpoint
                  \* before the current one returned
    reducer,      \* the reducer last called: "referrers", "paths" or "none"
    reducerIn,    \* the argument of that call
    reducerOut,   \* the dict that call returned
    cpc,          \* where the collector process is: "idle", "collecting", "exited"
    today,        \* timestamp: the UTC date of the run
    pending,      \* the submitted fetches no worker has taken yet, in order
    running,      \* the metric each worker thread is fetching, or Idle
    finished,     \* the outcome of each metric's future, once it is done
    merged,       \* the metrics as_completed has yielded so far, in order
    daily,        \* daily_data
    rawStore,     \* traffic-stats/{repo}-{metric}-{date}.json, by metric and date
    exitCode,     \* the exit status of the process
    nRuns         \* number of collection runs started so far

summaryVars == <<summary, lastRec, nUpserts>>

combineVars == <<dataType, snapshots, combinedFile, lastRun>>

fetchVars == <<cache, fpc, endpoint, attempt, result, trace, returned>>

reduceVars == <<reducer, reducerIn, reducerOut>>

collectVars == <<cpc, today, pending, running, finished, merged, daily,
                 rawStore, exitCode, nRuns>>

vars == <<summary, lastRec, nUpserts,
          dataType, snapshots, combinedFile, lastRun,
          cache, fpc, endpoint, attempt, result, trace, returned,
          reducer, reducerIn, reducerOut,
          cpc, today, pending, running, finished, merged, daily,
          rawStore, exitCode, nRuns>>

(***************************************************************************)
(* Bounds                                                                  *)
(***************************************************************************)
MaxUpserts == 3     \* _update_summary calls in one behaviour
MaxItems == 2       \* items held by all snapshot files of a pair together
MaxEntries == 3     \* entries of a referrers or paths payload
MaxRuns == 2        \* collection runs of one repository in one behaviour

\* Two days: date d stands for "2024-01-0d" (and for the timestamp
\* "2024-01-0dT00:00:00Z" of an item of a views/clones series)
Dates == {1, 2}

\* Values of count and uniques
Counts == {0, 1}

(***************************************************************************)
(* Summary store                                                           *)
(***************************************************************************)

\* pandas' missing value in a numeric column (written to CSV as an empty cell)
NaN == -1

\* pandas' missing value in a text column: to_csv writes it as the empty
\* string, so the empty string stands for it in memory and on disk alike
NaNText == ""

\* Texts that pd.read_csv, called with its defaults (keep_default_na), reads
\* back as missing in any column; three of pandas' default na_values
NaTokens == {"", "NA", "null"}

\* Repository names given on the command line: one that is an NA token and
\* one that is not.  (A name made of digits is read back as a number and is
\* not modelled.)
Repos == {"NA", "soprano"}

\* The per-metric scalar columns of the table (two of them)
Fields == {"views_count", "clones_count"}

\* Python's order on the repository texts, missing values last (na_position)
RepoOrder == <<"NA", "null", "soprano", "">>

RepoRank(r) == CHOOSE i \in 1..Len(RepoOrder) : RepoOrder[i] = r

\* daily_data: timestamp, repository and the fields that are present
Recs ==
    { [timestamp |-> d, repository |-> r, fields |-> f] :
        d \in Dates, r \in Repos,
        f \in UNION { [S -> Counts] : S \in SUBSET Fields } }

NoRec == [timestamp |-> 0, repository |-> "", fields |-> <<>>]

AbsentSummary == [exists |-> FALSE, cols |-> {}, rows |-> <<>>]

\* read_csv of one repository cell
ReadCell(text) == IF text \in NaTokens THEN NaNText ELSE text

\* pd.read_csv(summary_file): the repository column goes through NA detection;
\* dates ("2024-01-01") and numbers come back as written (a count is taken
\* as its value: 5 and 5.0 are the same cell)
ReadCsv(rows) ==
    [i \in 1..Len(rows) |-> [rows[i] EXCEPT !.repository = ReadCell(@)]]

\* mask = (df.timestamp == daily.timestamp) & (df.repository == daily.repository)
Mask(df, rec) ==
    { i \in 1..Len(df) :
        df[i].timestamp = rec.timestamp /\ df[i].repository = rec.repository }

\* pd.DataFrame([daily_data]): one row, absent columns missing
RowOf(rec) ==
    [timestamp |-> rec.timestamp, repository |-> rec.repository,
     views_count |-> IF "views_count" \in DOMAIN rec.fields
                     THEN rec.fields["views_count"] ELSE NaN,
     clones_count |-> IF "clones_count" \in DOMAIN rec.fields
                      THEN rec.fields["clones_count"] ELSE NaN]

\* for key, value in daily_data.items(): df.loc[mask, key] = value
UpdateRow(row, rec) ==
    [timestamp |-> rec.timestamp, repository |-> rec.repository,
     views_count |-> IF "views_count" \in DOMAIN rec.fields
                     THEN rec.fields["views_count"] ELSE row.views_count,
     clones_count |-> IF "clones_count" \in DOMAIN rec.fields
                      THEN rec.fields["clones_count"] ELSE row.clones_count]

\* (timestamp, repository) order used by sort_values
RowLeq(a, b) ==
    \/ a.timestamp < b.timestamp
    \/ /\ a.timestamp = b.timestamp
       /\ RepoRank(a.repository) <= RepoRank(b.repository)

\* insert row r after every row that is not greater (keeps the sort stable)
RECURSIVE InsertRow(_, _)
InsertRow(r, s) ==
    IF s = <<>> THEN <<r>>
    ELSE IF RowLeq(s[1], r) THEN <<s[1]>> \o InsertRow(r, Tail(s))
    ELSE <<r>> \o s

\* df.sort_values(['timestamp', 'repository']).reset_index(drop=True)
RECURSIVE SortRows(_)
SortRows(s) ==
    IF s = <<>> THEN <<>>
    ELSE InsertRow(s[Len(s)], SortRows(SubSeq(s, 1, Len(s) - 1)))

\* _update_summary(daily_data): the table written back to summary.csv
UpdateSummary(tab, rec) ==
    IF ~tab.exists
    THEN [exists |-> TRUE, cols |-> DOMAIN rec.fields, rows |-> <<RowOf(rec)>>]
    ELSE LET df == ReadCsv(tab.rows)
             mask == Mask(df, rec)
             upd == IF mask # {}
                    THEN [i \in 1..Len(df) |->
                            IF i \in mask THEN UpdateRow(df[i], rec) ELSE df[i]]
                    ELSE Append(df, RowOf(rec))
         IN [exists |-> TRUE,
             cols |-> tab.cols \cup DOMAIN rec.fields,
             rows |-> SortRows(upd)]

\* One collection run's final step: collector._update_summary(daily_data)
Upsert(rec) ==
    /\ nUpserts < MaxUpserts
    /\ summary' = UpdateSummary(summary, rec)
    /\ lastRec' = rec
    /\ nUpserts' = nUpserts + 1

SummaryInit ==
    /\ summary = AbsentSummary
    /\ lastRec = NoRec
    /\ nUpserts = 0

SummaryNext == \E rec \in Recs : Upsert(rec) /\ UNCHANGED <<combineVars, fetchVars, reduceVars, collectVars>>

(***************************************************************************)
(* Claims about the summary store                                          *)
(***************************************************************************)

\* number of rows of a table equal to row r
CountRow(rows, r) == Cardinality({ i \in 1..Len(rows) : rows[i] = r })

\* the rows of a table that carry the key of rec, as persisted
KeyRows(rows, rec) ==
    { i \in 1..Len(rows) :
        rows[i].timestamp = rec.timestamp /\ rows[i].repository = rec.repository }

\* C1: after any sequence of upserts from an absent table, the persisted
\* table holds at most one row per (date, repository) pair.
C1_UniqueKeys ==
    \A i, j \in 1..Len(summary.rows) :
        (/\ summary.rows[i].timestamp = summary.rows[j].timestamp
         /\ summary.rows[i].repository = summary.rows[j].repository) => i = j

\* C1 restricted to tables in which no repository cell is an NA token: there
\* the key is unique (the duplicates come from NA detection alone).
C1_UniqueKeysPlainNames ==
    (\A i \in 1..Len(summary.rows) : summary.rows[i].repository \notin NaTokens)
        => C1_UniqueKeys

\* C2: upsert is idempotent: applying the record just upserted a second time
\* leaves the persisted table exactly as the first application left it.
C2_UpsertIdempotent ==
    nUpserts > 0 => UpdateSummary(summary, lastRec) = summary

\* The frame of one upsert of rec taking table old to table new.
UpsertFrame(old, rec, new) ==
    IF KeyRows(old.rows, rec) # {}
    THEN /\ Len(new.rows) = Len(old.rows)
         /\ \A i \in 1..Len(old.rows) :
              IF i \in KeyRows(old.rows, rec)
              THEN \E j \in KeyRows(new.rows, rec) :
                     \A f \in Fields :
                        new.rows[j][f] = IF f \in DOMAIN rec.fields
                                         THEN rec.fields[f]
                                         ELSE old.rows[i][f]
              ELSE CountRow(new.rows, old.rows[i]) = CountRow(old.rows, old.rows[i])
    ELSE /\ Len(new.rows) = Len(old.rows) + 1
         /\ \A i \in 1..Len(old.rows) :
              CountRow(new.rows, old.rows[i]) >= CountRow(old.rows, old.rows[i])
         /\ \E j \in 1..Len(new.rows) : new.rows[j] = RowOf(rec)

\* C3: an upsert that finds a row with the record's key changes only the
\* fields present in the record and leaves every other row as it was; an
\* upsert whose key is not in the table appends exactly one row and leaves
\* the existing rows as they were.
C3_UpsertFrame ==
    [][nUpserts' = nUpserts + 1 => UpsertFrame(summary, lastRec', summary')]_vars

(***************************************************************************)
(* Combiner                                                                *)
(***************************************************************************)

DataTypes == {"views", "clones", "referrers", "paths"}

\* Referrer names and paths (the sub-keys of referrers and paths)
Keys == {"google", "bing"}

Titles == {"t1", "t2"}

\* extract_timestamp_from_filename: None when the name holds no date
NoDate == 0

\* One item of a payload.  views/clones items carry their own timestamp ts;
\* referrers/paths items carry a sub-key (and paths a title).  ok = FALSE is
\* an item that lacks an expected field.
Item(ts, key, title, count, uniques, ok) ==
    [ts |-> ts, key |-> key, title |-> title,
     count |-> count, uniques |-> uniques, ok |-> ok]

ItemsOf(dt) ==
    IF dt \in {"views", "clones"}
    THEN { Item(t, "", "", c, u, TRUE) : t \in Dates, c \in Counts, u \in Counts }
    ELSE IF dt = "referrers"
    THEN { Item(NoDate, k, "", c, u, TRUE) : k \in Keys, c \in Counts, u \in Counts }
    ELSE { Item(NoDate, k, t, c, u, TRUE) :
             k \in Keys, t \in Titles, c \in Counts, u \in Counts }

\* The value under "data" of a parsed entry:
\*   missing  no "data" key          null  "data": null
\*   dict     "data": {..., dt: items}   list  "data": items
Data(tag, items) == [tag |-> tag, items |-> items]

\* A file of the directory: absent, unparseable, or a parsed list of entries
NoFile == [kind |-> "absent", entries |-> <<>>]

Garbage == [kind |-> "garbage", entries |-> <<>>]

\* _save_raw_data: pd.DataFrame({'data': [data]}).to_json(orient='records'),
\* that is [{"data": data}]
RawFile(data) == [kind |-> "json", entries |-> <<data>>]

\* The payload of the endpoint of dt as the API returns it (a dict holding
\* the series for views/clones, a list for referrers/paths)
Payload(dt, items) ==
    IF dt \in {"views", "clones"} THEN Data("dict", items) ELSE Data("list", items)

Max(a, b) == IF a >= b THEN a ELSE b

\* position of timestamp ts in combined_data (0 when absent)
TsIndex(cd, ts) ==
    IF \E i \in 1..Len(cd) : cd[i].timestamp = ts
    THEN CHOOSE i \in 1..Len(cd) : cd[i].timestamp = ts
    ELSE 0

\* position of sub-key k in combined_data[ts] (0 when absent)
KeyIndex(sub, k) ==
    IF \E j \in 1..Len(sub) : sub[j].key = k
    THEN CHOOSE j \in 1..Len(sub) : sub[j].key = k
    ELSE 0

\* a merge that adds the observed value up instead of taking the maximum
MergeSum(seen, kept) == seen + kept

\* the value seen last replaces the one kept
MergeLast(seen, kept) == seen

\* the merge of two observed values: max(item[...], combined_data[...])
Merge(seen, kept) == Max(seen, kept)

\* lines 22-27: one views/clones item folded into combined_data
MergeSeriesItem(cd, item) ==
    LET cd1 == IF TsIndex(cd, item.ts) = 0
               THEN Append(cd, [timestamp |-> item.ts, count |-> 0,
                                uniques |-> 0, data |-> <<>>])
               ELSE cd
        i == TsIndex(cd1, item.ts)
    IN [cd1 EXCEPT ![i].count = Merge(item.count, @),
                   ![i].uniques = Merge(item.uniques, @)]

\* lines 30-48: one referrers/paths item folded into combined_data[ts]
MergeKeyedItem(cd, ts, item, dt) ==
    LET cd1 == IF TsIndex(cd, ts) = 0
               THEN Append(cd, [timestamp |-> ts, count |-> 0,
                                uniques |-> 0, data |-> <<>>])
               ELSE cd
        i == TsIndex(cd1, ts)
        sub == cd1[i].data
        sub1 == IF KeyIndex(sub, item.key) = 0
                THEN Append(sub, [key |-> item.key,
                                  title |-> IF dt = "paths" THEN item.title ELSE "",
                                  count |-> 0, uniques |-> 0])
                ELSE sub
        j == KeyIndex(sub1, item.key)
    IN [cd1 EXCEPT ![i].data =
            [sub1 EXCEPT ![j].count = Merge(item.count, @),
                         ![j].uniques = Merge(item.uniques, @)]]

\* the result of a fold: ok = FALSE when an exception left the loop
Ok(cd) == [ok |-> TRUE, cd |-> cd]

Raised == [ok |-> FALSE, cd |-> <<>>]

\* the inner "for item in ...": a missing field raises KeyError
RECURSIVE FoldItems(_, _, _, _)
FoldItems(cd, items, ts, dt) ==
    IF items = <<>> THEN Ok(cd)
    ELSE IF ~items[1].ok THEN Raised
    ELSE FoldItems(IF dt \in {"views", "clones"}
                   THEN MergeSeriesItem(cd, items[1])
                   ELSE MergeKeyedItem(cd, ts, items[1], dt),
                   Tail(items), ts, dt)

\* lines 20-21 and 28-29: the items one entry yields, or an exception.
\* views/clones: entry.get("data", {}).get(dt, []) raises on null and on a list;
\* referrers/paths: iterating entry.get("data", []) raises on null, and the
\* keys of a dict are strings, which item["referrer"] cannot index.
EntryRaises(entry, dt) ==
    IF dt \in {"views", "clones"}
    THEN entry.tag \in {"null", "list"}
    ELSE entry.tag \in {"null", "dict"}

EntryItems(entry, dt) == IF entry.tag = "missing" THEN <<>> ELSE entry.items

\* "for entry in data"
RECURSIVE FoldEntries(_, _, _, _)
FoldEntries(cd, entries, ts, dt) ==
    IF entries = <<>> THEN Ok(cd)
    ELSE IF EntryRaises(entries[1], dt) THEN Raised
    ELSE LET r == FoldItems(cd, EntryItems(entries[1], dt), ts, dt)
         IN IF r.ok THEN FoldEntries(r.cd, Tail(entries), ts, dt) ELSE Raised

\* "for json_file in glob(...)": files is the enumeration, each a pair of the
\* date in the file's name and the file; json.load raises on an unparseable file
RECURSIVE FoldFiles(_, _, _)
FoldFiles(cd, files, dt) ==
    IF files = <<>> THEN Ok(cd)
    ELSE IF files[1].file.kind = "garbage" THEN Raised
    ELSE LET r == FoldEntries(cd, files[1].file.entries, files[1].date, dt)
         IN IF r.ok THEN FoldFiles(r.cd, Tail(files), dt) ELSE Raised

\* lines 51-56: combined_data as a list, in insertion order.  views/clones
\* entries are {timestamp, count, uniques}; referrers/paths entries are
\* {timestamp, data: [{referrer|path, (title,) count, uniques}]}
CombinedList(cd, dt) ==
    [i \in 1..Len(cd) |->
        IF dt \in {"views", "clones"}
        THEN [timestamp |-> cd[i].timestamp, count |-> cd[i].count,
              uniques |-> cd[i].uniques, data |-> <<>>]
        ELSE [timestamp |-> cd[i].timestamp, count |-> 0, uniques |-> 0,
              data |-> cd[i].data]]

\* sorted(..., key=timestamp) compares the keys: None against a string (or
\* against None) is a TypeError as soon as there are two entries
SortRaises(list) ==
    Len(list) >= 2 /\ \E i \in 1..Len(list) : list[i].timestamp = NoDate

RECURSIVE InsertEntry(_, _)
InsertEntry(e, s) ==
    IF s = <<>> THEN <<e>>
    ELSE IF s[1].timestamp <= e.timestamp THEN <<s[1]>> \o InsertEntry(e, Tail(s))
    ELSE <<e>> \o s

\* a stable sort by timestamp
RECURSIVE SortList(_)
SortList(s) ==
    IF s = <<>> THEN <<>>
    ELSE InsertEntry(s[Len(s)], SortList(SubSeq(s, 1, Len(s) - 1)))

\* an output left in dictionary (insertion) order
Unsorted(list) == list

\* line 59: combined_list = sorted(combined_list, key=...)
SortedByTimestamp(list) == SortList(list)

\* combine_json_files over one enumeration of the directory: the list written
\* to the output file, or ok = FALSE when an exception ended the call
CombineJsonFiles(files, dt) ==
    LET r == FoldFiles(<<>>, files, dt)
        list == CombinedList(r.cd, dt)
    IN IF r.ok /\ ~SortRaises(list)
       THEN [ok |-> TRUE, list |-> SortedByTimestamp(list)]
       ELSE [ok |-> FALSE, list |-> <<>>]

NoCombined == [exists |-> FALSE, list |-> <<>>]

\* json.load of a combined file written by an earlier run, as the entries the
\* loop at line 19 sees: views/clones entries have no "data" key,
\* referrers/paths entries hold their items under "data"
CombinedAsFile(list, dt) ==
    [kind |-> "json",
     entries |->
        [i \in 1..Len(list) |->
            IF dt \in {"views", "clones"}
            THEN Data("missing", <<>>)
            ELSE Data("list",
                      [j \in 1..Len(list[i].data) |->
                          Item(NoDate, list[i].data[j].key, list[i].data[j].title,
                               list[i].data[j].count, list[i].data[j].uniques,
                               TRUE)])]]

\* The files glob("{repo}-{dt}-*.json") matches: the dated snapshots and, once
\* written, "{repo}-{dt}-combined.json", whose name holds no date
Matched(snaps, comb, dt) ==
    { [date |-> d, file |-> snaps[d]] : d \in { x \in Dates : snaps[x] # NoFile } }
    \cup (IF comb.exists
          THEN { [date |-> NoDate, file |-> CombinedAsFile(comb.list, dt)] }
          ELSE {})

\* glob yields the matched files in an order the file system chooses
Enumerations(S) ==
    { f \in [1..Cardinality(S) -> S] : \A x \in S : \E i \in DOMAIN f : f[i] = x }

\* number of items a file holds
RECURSIVE ItemCount(_)
ItemCount(entries) ==
    IF entries = <<>> THEN 0
    ELSE Len(entries[1].items) + ItemCount(Tail(entries))

RECURSIVE SumOver(_, _)
SumOver(snaps, ds) ==
    IF ds = {} THEN 0
    ELSE LET d == CHOOSE x \in ds : TRUE
         IN ItemCount(snaps[d].entries) + SumOver(snaps, ds \ {d})

TotalItems(snaps) == SumOver(snaps, Dates)

\* payloads of at most n items
ItemSeqs(dt, n) == UNION { [1..k -> ItemsOf(dt)] : k \in 0..n }

\* A collection run saves the payload of its day (collect_metrics line 205):
\* the API's payload, or null after a 404.  Here each day's file is written
\* once, by the first run of that day.
SaveRawData(d, data) ==
    /\ snapshots[d] = NoFile
    /\ snapshots' = [snapshots EXCEPT ![d] = RawFile(data)]
    /\ lastRun' = "none"
    /\ UNCHANGED <<dataType, combinedFile>>

WriteSnapshot ==
    \E d \in Dates :
        \/ \E items \in ItemSeqs(dataType, MaxItems - TotalItems(snapshots)) :
              SaveRawData(d, Payload(dataType, items))
        \/ SaveRawData(d, Data("null", <<>>))

\* A snapshot file left malformed on disk by a write that went wrong:
\* unparseable, or holding an item that lacks an expected field
WriteMalformed ==
    \E d \in Dates :
        /\ snapshots[d] = NoFile
        /\ \/ snapshots' = [snapshots EXCEPT ![d] = Garbage]
           \/ /\ TotalItems(snapshots) < MaxItems
              /\ \E item \in ItemsOf(dataType) :
                    snapshots' = [snapshots EXCEPT ![d] =
                        RawFile(Payload(dataType, <<[item EXCEPT !.ok = FALSE]>>))]
        /\ lastRun' = "none"
        /\ UNCHANGED <<dataType, combinedFile>>

\* main(): combine_json_files(repo, dt, "traffic-stats/{repo}-{dt}-combined.json")
\* The output file is opened for writing only after the loop and the sort.
RunCombiner ==
    /\ \E files \in Enumerations(Matched(snapshots, combinedFile, dataType)) :
          LET r == CombineJsonFiles(files, dataType)
          IN IF r.ok
             THEN /\ combinedFile' = [exists |-> TRUE, list |-> r.list]
                  /\ lastRun' = "ok"
             ELSE /\ combinedFile' = combinedFile
                  /\ lastRun' = "aborted"
    /\ UNCHANGED <<dataType, snapshots>>

CombineInit ==
    /\ dataType \in DataTypes
    /\ snapshots = [d \in Dates |-> NoFile]
    /\ combinedFile = NoCombined
    /\ lastRun = "none"

CombineNext ==
    \/ WriteSnapshot /\ UNCHANGED <<summaryVars, fetchVars, reduceVars, collectVars>>
    \/ WriteMalformed /\ UNCHANGED <<summaryVars, fetchVars, reduceVars, collectVars>>
    \/ RunCombiner /\ UNCHANGED <<summaryVars, fetchVars, reduceVars, collectVars>>

\* The directory holds only what collection runs save: no file is left
\* malformed
SnapshotsNext ==
    \/ WriteSnapshot /\ UNCHANGED <<summaryVars, fetchVars, reduceVars, collectVars>>
    \/ RunCombiner /\ UNCHANGED <<summaryVars, fetchVars, reduceVars, collectVars>>

(***************************************************************************)
(* Claims about the combiner                                               *)
(***************************************************************************)

\* the dates whose snapshot file is on disk
Present == { d \in Dates : snapshots[d] # NoFile }

\* a malformed snapshot file: unparseable, or with an item lacking a field
Malformed(file) ==
    \/ file.kind = "garbage"
    \/ \E e \in 1..Len(file.entries) :
          \E k \in 1..Len(file.entries[e].items) : ~file.entries[e].items[k].ok

\* a snapshot file holding a payload of the endpoint, every item complete
WellFormed(file) ==
    /\ file.kind = "json"
    /\ ~Malformed(file)
    /\ \A e \in 1..Len(file.entries) : file.entries[e].tag \in {"dict", "list"}

\* one snapshot item as an observation of (date, sub-key): views/clones items
\* are filed under their own timestamp, referrers/paths items under the date
\* of the file and their referrer or path
Observation(d, item) ==
    [date |-> IF dataType \in {"views", "clones"} THEN item.ts ELSE d,
     key |-> item.key, count |-> item.count, uniques |-> item.uniques]

\* every observation the well-formed snapshots on disk hold
Observations ==
    UNION { { Observation(d, snapshots[d].entries[1].items[k]) :
                k \in 1..Len(snapshots[d].entries[1].items) } :
            d \in { x \in Present : WellFormed(snapshots[x]) } }

\* every (date, sub-key) cell of the combined series on disk
OutputCells ==
    UNION { IF dataType \in {"views", "clones"}
            THEN { [date |-> combinedFile.list[i].timestamp, key |-> "",
                    count |-> combinedFile.list[i].count,
                    uniques |-> combinedFile.list[i].uniques] }
            ELSE { [date |-> combinedFile.list[i].timestamp,
                    key |-> combinedFile.list[i].data[j].key,
                    count |-> combinedFile.list[i].data[j].count,
                    uniques |-> combinedFile.list[i].data[j].uniques] :
                     j \in 1..Len(combinedFile.list[i].data) } :
            i \in 1..Len(combinedFile.list) }

SetMax(S) == CHOOSE m \in S : \A x \in S : x <= m

\* C4: a second combiner run over the same snapshot directory, with the
\* first run's output file where main() wrote it, completes and writes the
\* same output, whatever the order in which the files are enumerated.
C4_CombinerIdempotent ==
    lastRun = "ok" =>
        \A files \in Enumerations(Matched(snapshots, combinedFile, dataType)) :
            LET r == CombineJsonFiles(files, dataType)
            IN r.ok /\ r.list = combinedFile.list

C6_SortedUnique ==
    combinedFile.exists =>
        \A i, j \in 1..Len(combinedFile.list) :
            i < j => combinedFile.list[i].timestamp < combinedFile.list[j].timestamp

\* C6's case: a series whose items arrive latest first, combined into two
\* entries
C6_Witness ==
    /\ lastRun = "ok"
    /\ Len(combinedFile.list) = 2
    /\ \E d \in Present :
          /\ WellFormed(snapshots[d])
          /\ Len(snapshots[d].entries[1].items) = 2
          /\ snapshots[d].entries[1].items[1].ts > snapshots[d].entries[1].items[2].ts

\* the snapshot files other than the one of date d, as glob matches them
OtherSnapshots(d) ==
    { [date |-> x, file |-> snapshots[x]] : x \in Present \ {d} }

\* C7: after a run over a directory in which one snapshot file is malformed
\* and the others are well formed, the run has completed and the output is
\* the series combined from the other snapshots.
C7_SkipsMalformed ==
    \A d \in Present :
        (/\ lastRun # "none"
         /\ Malformed(snapshots[d])
         /\ \A x \in Present \ {d} : WellFormed(snapshots[x]))
        => /\ lastRun = "ok"
           /\ combinedFile.exists
           /\ \A files \in Enumerations(OtherSnapshots(d)) :
                 combinedFile.list = CombineJsonFiles(files, dataType).list

(***************************************************************************)
(* Metric fetcher                                                          *)
(***************************************************************************)

\* _make_request(endpoint, retries=3, delay=2)
Retries == 3

Delay == 2

Endpoints == {"traffic/views", "traffic/popular/referrers"}

\* JSON bodies of 200 responses
Payloads == {"p1", "p2"}

\* Python's None as a return value, and the value before the call returns
Null == "None"

NoResult == "-"

NotCached == "-"

\* X-RateLimit-Remaining is not among the response headers
NoHeader == -1

\* session.get: a response (status, X-RateLimit-Remaining, whether
\* X-RateLimit-Reset lies far enough ahead that sleep_time > 0, JSON body), or
\* a RequestException raised by the transport
Response(status, remaining, resetAhead, body) ==
    [kind |-> "response", status |-> status, remaining |-> remaining,
     resetAhead |-> resetAhead, body |-> body]

TransportError ==
    [kind |-> "exception", status |-> 0, remaining |-> NoHeader,
     resetAhead |-> FALSE, body |-> Null]

Responses ==
    { Response(200, 1, TRUE, b) : b \in Payloads }
    \cup { Response(st, 1, TRUE, Null) : st \in {404, 500, 304} }
    \cup { Response(403, r, a, Null) : r \in {NoHeader, 0, 1}, a \in BOOLEAN }
    \cup { TransportError }

\* What one pass through the loop body does: the sleeps made, and whether the
\* loop goes on ("continue"), the call returns a value or the call raises
Effect(next, value, store, sleeps) ==
    [next |-> next, value |-> value, store |-> store, sleeps |-> sleeps]

Sleep(kind, secs) == [kind |-> kind, val |-> secs]

Get(resp) ==
    [kind |-> IF resp.kind = "exception" THEN "error" ELSE "get", val |-> resp.status]

\* lines 57-62: 403 with X-RateLimit-Remaining of 0 and a reset time ahead
RateLimited(resp) ==
    /\ resp.status = 403
    /\ resp.remaining # NoHeader
    /\ resp.remaining = 0
    /\ resp.resetAhead

\* lines 63-65: sleep until the reset time, then "continue"
OnRateLimit(att) == Effect("continue", Null, FALSE, <<Sleep("ratelimit", 0)>>)

\* lines 78-81: except RequestException: raise on the last attempt only
OnException(att) ==
    IF att = Retries - 1
    THEN Effect("raise", Null, FALSE, <<>>)
    ELSE Effect("continue", Null, FALSE, <<>>)

\* lines 74-77: any other status sleeps delay * 2^attempt before the next
\* attempt; on the last attempt raise_for_status() raises for 4xx and 5xx
\* (into the except clause) and returns for any other status
OnOtherStatus(resp, att) ==
    IF att < Retries - 1
    THEN Effect("continue", Null, FALSE, <<Sleep("backoff", Delay * 2 ^ att)>>)
    ELSE IF resp.status >= 400 THEN OnException(att)
    ELSE Effect("continue", Null, FALSE, <<>>)

\* a 404 handled like any other status
NotFoundRetried(resp, att) == OnOtherStatus(resp, att)

\* lines 71-73: 404 returns None
OnNotFound(resp, att) == Effect("return", Null, FALSE, <<>>)

\* lines 53-81: the body of the loop for one response
LoopBody(resp, att) ==
    IF resp.kind = "exception" THEN OnException(att)
    ELSE IF RateLimited(resp) THEN OnRateLimit(att)
    ELSE IF resp.status = 200 THEN Effect("return", resp.body, TRUE, <<>>)
    ELSE IF resp.status = 404 THEN OnNotFound(resp, att)
    ELSE OnOtherStatus(resp, att)

\* a call that finds its endpoint in the cache always finds nothing
CacheMiss(c, ep) == FALSE

\* line 49: "if cache_key in self._cache"
CacheHit(c, ep) == c[ep] # NotCached

\* lines 48-50: a call; a cached endpoint returns at once
Call(ep) ==
    /\ fpc \in {"idle", "returned", "raised"}
    /\ endpoint' = ep
    /\ attempt' = 0
    /\ trace' = <<>>
    /\ returned' = IF fpc = "returned"
                   THEN [returned EXCEPT ![endpoint] = result]
                   ELSE returned
    /\ IF CacheHit(cache, ep)
       THEN fpc' = "returned" /\ result' = cache[ep]
       ELSE fpc' = "loop" /\ result' = NoResult
    /\ UNCHANGED cache

\* one iteration of "for attempt in range(retries)"; when the loop runs out
\* the call returns None (line 83)
Attempt(resp) ==
    /\ fpc = "loop"
    /\ LET e == LoopBody(resp, attempt)
       IN /\ trace' = trace \o <<Get(resp)>> \o e.sleeps
          /\ cache' = IF e.store THEN [cache EXCEPT ![endpoint] = e.value]
                      ELSE cache
          /\ IF e.next = "return"
             THEN fpc' = "returned" /\ result' = e.value /\ attempt' = attempt
             ELSE IF e.next = "raise"
             THEN fpc' = "raised" /\ result' = NoResult /\ attempt' = attempt
             ELSE IF attempt + 1 < Retries
             THEN fpc' = "loop" /\ result' = NoResult /\ attempt' = attempt + 1
             ELSE fpc' = "returned" /\ result' = Null /\ attempt' = attempt
    /\ UNCHANGED <<endpoint, returned>>

FetchInit ==
    /\ cache = [ep \in Endpoints |-> NotCached]
    /\ fpc = "idle"
    /\ endpoint = "traffic/views"
    /\ attempt = 0
    /\ result = NoResult
    /\ trace = <<>>
    /\ returned = [ep \in Endpoints |-> NoResult]

FetchNext ==
    \/ \E ep \in Endpoints : Call(ep) /\ UNCHANGED <<summaryVars, combineVars, reduceVars, collectVars>>
    \/ \E resp \in Responses : Attempt(resp) /\ UNCHANGED <<summaryVars, combineVars, reduceVars, collectVars>>

(***************************************************************************)
(* Claims about the fetcher                                                *)
(***************************************************************************)

\* the requests of the current call, in order
Requests == SelectSeq(trace, LAMBDA ev : ev.kind \in {"get", "error"})

IsRateLimitSleep(ev) == ev.kind = "ratelimit"

\* the attempts of the current call that were not answered by a rate-limit
\* sleep
OrdinaryAttempts ==
    Len(Requests) - Len(SelectSeq(trace, IsRateLimitSleep))

\* C8: an attempt answered by a rate-limit 403 is slept out and retried
\* without using up one of the call's attempts: while the loop runs, the
\* attempts used are the ordinary ones only, and no call ends on a
\* rate-limit sleep.
C8_RateLimitKeepsRetries ==
    /\ fpc = "loop" => attempt = OrdinaryAttempts
    /\ fpc \in {"returned", "raised"} /\ trace # <<>>
          => ~IsRateLimitSleep(trace[Len(trace)])

\* C9: a call none of whose attempts got a 200 or a 404 raises: it returns
\* neither None nor a payload.
C9_ExhaustedRaises ==
    (/\ fpc \in {"returned", "raised"}
     /\ trace # <<>>
     /\ \A i \in 1..Len(trace) :
           ~(trace[i].kind = "get" /\ trace[i].val \in {200, 404}))
    => fpc = "raised"

\* C10: a 404 at any attempt ends the call at once with None: it is the
\* last event of the call (no further request, no sleep after it), and the
\* call has returned None and not raised.
C10_NotFoundReturnsNull ==
    \A i \in 1..Len(trace) :
        (trace[i].kind = "get" /\ trace[i].val = 404)
        => /\ i = Len(trace)
           /\ fpc = "returned"
           /\ result = Null

\* C10's case: a 404 on a later attempt, after a backoff sleep
C10_Witness ==
    /\ Len(trace) >= 3
    /\ trace[Len(trace)].kind = "get" /\ trace[Len(trace)].val = 404
    /\ \E i \in 1..Len(trace) : trace[i].kind = "backoff"

\* C11 as stated: once a call for an endpoint has returned a result (a
\* payload or None), every later call for that endpoint makes no request
\* and returns that same result.
C11_AnyResultServedFromCache ==
    returned[endpoint] # NoResult
    => /\ Requests = <<>>
       /\ fpc \in {"returned", "raised"}
             => fpc = "returned" /\ result = returned[endpoint]

\* C11: once a call for an endpoint has returned a payload (the body of a
\* 200 response), every later call for that endpoint makes no request and
\* returns that same payload.
C11_PayloadServedFromCache ==
    returned[endpoint] \in Payloads
    => /\ Requests = <<>>
       /\ fpc = "returned"
       /\ result = returned[endpoint]

\* C11's case: a later call for an endpoint whose earlier call returned a
\* payload over the network, made after a call for the other endpoint
C11_Witness ==
    /\ returned[endpoint] \in Payloads
    /\ fpc = "returned"
    /\ result = returned[endpoint]
    /\ \E ep \in Endpoints : ep # endpoint /\ returned[ep] # NoResult

\* a snapshot file as _save_raw_data writes it: the payload of the metric's
\* endpoint, or null when the fetch returned None
CollectorWritten(file) ==
    WellFormed(file) \/ file = RawFile(Data("null", <<>>))

\* C19: a combiner run over a directory that holds only snapshot files as a
\* collection run writes them, and no earlier output file, does not abort.
C19_CombinerReadsEverySnapshot ==
    (/\ lastRun # "none"
     /\ \A d \in Present : CollectorWritten(snapshots[d])
     /\ lastRun = "aborted" => ~combinedFile.exists)
    => lastRun = "ok"

\* the results of a combiner run over a directory, one for each order in
\* which its matched files can be enumerated
ResultsOverOrders ==
    { CombineJsonFiles(files, dataType) :
        files \in Enumerations(Matched(snapshots, combinedFile, dataType)) }

\* C20: every order in which the matched files of the directory can be
\* enumerated gives the same result: the same combined series, entry by
\* entry and sub-key by sub-key, titles included.
C20_EnumerationOrderIrrelevant == Cardinality(ResultsOverOrders) = 1

\* C20's case: a completed run over two snapshot files that hold different
\* counts for the same timestamp of a views or clones series
C20_Witness ==
    /\ lastRun = "ok"
    /\ dataType \in {"views", "clones"}
    /\ \E d1, d2 \in Present :
          /\ d1 # d2
          /\ WellFormed(snapshots[d1]) /\ WellFormed(snapshots[d2])
          /\ \E i \in 1..Len(snapshots[d1].entries[1].items) :
             \E j \in 1..Len(snapshots[d2].entries[1].items) :
                /\ snapshots[d1].entries[1].items[i].ts
                      = snapshots[d2].entries[1].items[j].ts
                /\ snapshots[d1].entries[1].items[i].count
                      # snapshots[d2].entries[1].items[j].count

(***************************************************************************)
(* Reducers (collect_traffic.py, _process_referrers and _process_paths)    *)
(***************************************************************************)

\* Paths of the popular-paths payload
PathNames == {"/README.md", "/docs"}

\* str.lower() on the paths above
Lower(path) == IF path = "/README.md" THEN "/readme.md" ELSE path

\* One entry of a referrers payload (name is its 'referrer') or of a paths
\* payload (name is its 'path'; the reducer does not read the title)
Entry(name, count, uniques) == [name |-> name, count |-> count, uniques |-> uniques]

EntriesOf(metric) ==
    { Entry(n, c, u) : n \in (IF metric = "referrers" THEN Keys ELSE PathNames),
                       c \in Counts, u \in Counts }

\* The argument of a reducer: None, or a list of entries
NullData == [tag |-> "null", rows |-> <<>>]

ListData(rows) == [tag |-> "list", rows |-> rows]

ListPayloads(metric, n) ==
    { ListData(rows) : rows \in UNION { [1..k -> EntriesOf(metric)] : k \in 0..n } }

\* "if not referrers_data" / "if not paths_data": None and [] are falsy;
\* "if df.empty" is the same test on the frame
Falsy(data) == data.tag = "null" \/ data.rows = <<>>

\* ordering by the columns ['count', 'uniques'], first column first
Larger(a, b) ==
    \/ a.count > b.count
    \/ a.count = b.count /\ a.uniques > b.uniques

\* the same with the columns taken as ['uniques', 'count']
NLargestUniquesFirst(rows) ==
    CHOOSE i \in 1..Len(rows) :
        \A j \in 1..Len(rows) :
            \/ rows[j].uniques < rows[i].uniques
            \/ rows[j].uniques = rows[i].uniques /\ rows[j].count < rows[i].count
            \/ rows[j].uniques = rows[i].uniques /\ rows[j].count = rows[i].count
                  /\ j >= i

\* df.nlargest(1, ['count', 'uniques']).iloc[0]: the position of the largest
\* row; keep='first' takes the earliest of the rows that tie on both columns
NLargest(rows) ==
    CHOOSE i \in 1..Len(rows) :
        \A j \in 1..Len(rows) :
            IF j < i THEN Larger(rows[i], rows[j]) ELSE ~Larger(rows[j], rows[i])

RECURSIVE ColumnSum(_, _)
\* df[col].sum(); col is "count" or "uniques"
ColumnSum(rows, col) ==
    IF rows = <<>> THEN 0
    ELSE (IF col = "count" THEN rows[1].count ELSE rows[1].uniques)
         + ColumnSum(Tail(rows), col)

\* lines 88-95 and 99-100: the dict returned for None, [] and an empty frame
ReferrerDefaults ==
    [top_referrer |-> "none", top_referrer_count |-> 0,
     top_referrer_uniques |-> 0, total_referrer_count |-> 0,
     total_referrer_uniques |-> 0, distinct_referrers |-> 0]

\* _process_referrers
ProcessReferrers(data) ==
    IF Falsy(data) THEN ReferrerDefaults
    ELSE LET top == data.rows[NLargest(data.rows)]
         IN [top_referrer |-> top.name,
             top_referrer_count |-> top.count,
             top_referrer_uniques |-> top.uniques,
             total_referrer_count |-> ColumnSum(data.rows, "count"),
             total_referrer_uniques |-> ColumnSum(data.rows, "uniques"),
             distinct_referrers |-> Len(data.rows)]

\* lines 117-126 and 130-131
PathDefaults ==
    [top_path |-> "none", top_path_count |-> 0, top_path_uniques |-> 0,
     total_path_count |-> 0, total_path_uniques |-> 0,
     readme_views |-> 0, readme_uniques |-> 0, distinct_paths |-> 0]

\* df['is_readme'] = df['path'].str.lower() == '/readme.md'; df[df['is_readme']]
ReadmeRows(rows) == SelectSeq(rows, LAMBDA r : Lower(r.name) = "/readme.md")

\* _process_paths
ProcessPaths(data) ==
    IF Falsy(data) THEN PathDefaults
    ELSE LET top == data.rows[NLargest(data.rows)]
         IN [top_path |-> top.name,
             top_path_count |-> top.count,
             top_path_uniques |-> top.uniques,
             total_path_count |-> ColumnSum(data.rows, "count"),
             total_path_uniques |-> ColumnSum(data.rows, "uniques"),
             readme_views |-> ColumnSum(ReadmeRows(data.rows), "count"),
             readme_uniques |-> ColumnSum(ReadmeRows(data.rows), "uniques"),
             distinct_paths |-> Len(data.rows)]

\* the reducer of a metric
Process(metric, data) ==
    IF metric = "referrers" THEN ProcessReferrers(data) ELSE ProcessPaths(data)

\* a call of self._process_referrers(data) or self._process_paths(data); the
\* reducers keep no state between calls, so a behaviour holds one call
CallReducer(metric, data) ==
    /\ reducer = "none"
    /\ reducer' = metric
    /\ reducerIn' = data
    /\ reducerOut' = Process(metric, data)

ReduceInit ==
    /\ reducer = "none"
    /\ reducerIn = NullData
    /\ reducerOut = ReferrerDefaults

ReduceNext ==
    \/ \E data \in ListPayloads("referrers", MaxEntries) \cup {NullData} :
          CallReducer("referrers", data)
          /\ UNCHANGED <<summaryVars, combineVars, fetchVars, collectVars>>
    \/ \E data \in ListPayloads("paths", MaxEntries) \cup {NullData} :
          CallReducer("paths", data)
          /\ UNCHANGED <<summaryVars, combineVars, fetchVars, collectVars>>

(***************************************************************************)
(* Claims about the reducers                                               *)
(***************************************************************************)

\* the top entry of a reducer's result: (name, count, uniques)
TopEntry(metric, out) ==
    IF metric = "referrers"
    THEN <<out.top_referrer, out.top_referrer_count, out.top_referrer_uniques>>
    ELSE <<out.top_path, out.top_path_count, out.top_path_uniques>>

\* total count, total uniques and number of entries of a reducer's result
Totals(metric, out) ==
    IF metric = "referrers"
    THEN <<out.total_referrer_count, out.total_referrer_uniques,
           out.distinct_referrers>>
    ELSE <<out.total_path_count, out.total_path_uniques, out.distinct_paths>>

\* the rows of a list in another order
Reordered(rows, perm) == [i \in 1..Len(rows) |-> rows[perm[i]]]

\* C16: the reducer's result for a list is the one it gives for every
\* reordering of that list: the same top entry (name, count, uniques), the
\* same total count, total uniques and number of entries.
C16_StableUnderReordering ==
    reducer # "none" /\ reducerIn.tag = "list"
    => \A perm \in Permutations(1..Len(reducerIn.rows)) :
          LET other == Process(reducer, ListData(Reordered(reducerIn.rows, perm)))
          IN /\ TopEntry(reducer, other) = TopEntry(reducer, reducerOut)
             /\ Totals(reducer, other) = Totals(reducer, reducerOut)

\* C17: for a non-empty list the top entry of the result is an entry of the
\* list, no entry has a larger count, and no entry with that count has
\* larger uniques; for None and for the empty list it is ('none', 0, 0).
C17_TopIsLargest ==
    reducer # "none"
    => LET rows == reducerIn.rows
           top == TopEntry(reducer, reducerOut)
       IN IF reducerIn.tag = "null" \/ rows = <<>>
          THEN top = <<"none", 0, 0>>
          ELSE /\ \E i \in 1..Len(rows) :
                     top = <<rows[i].name, rows[i].count, rows[i].uniques>>
               /\ \A j \in 1..Len(rows) :
                     /\ rows[j].count <= top[2]
                     /\ rows[j].count = top[2] => rows[j].uniques <= top[3]

\* C17's case: the largest entry is not the first one, a later entry has
\* the same count and smaller uniques, and another has larger uniques and
\* a smaller count
C17_Witness ==
    /\ reducer # "none" /\ reducerIn.tag = "list"
    /\ Len(reducerIn.rows) = 3
    /\ LET rows == reducerIn.rows
           top == TopEntry(reducer, reducerOut)
       IN /\ top # <<rows[1].name, rows[1].count, rows[1].uniques>>
          /\ \E j \in 1..3 : rows[j].count = top[2] /\ rows[j].uniques < top[3]
          /\ \E j \in 1..3 : rows[j].count < top[2] /\ rows[j].uniques >= top[3]

(***************************************************************************)
(* Collection run (collect_traffic.py, collect_metrics and main)           *)
(***************************************************************************)

\* ThreadPoolExecutor(max_workers=2)
MaxWorkers == 2

Workers == 1..MaxWorkers

\* the keys of "metrics" in the order they are submitted
MetricOrder == <<"views", "clones", "referrers", "paths">>

\* the repository given on the command line
CollectRepo == "soprano"

\* a worker thread with no fetch to run
Idle == "-"

IsTraffic(metric) == metric \in {"views", "clones"}

\* A views or clones payload: a dict; fields holds its top-level 'count' and
\* 'uniques' where it has them
DictData(fields) == [tag |-> "dict", fields |-> fields]

\* The payloads a fetch of a metric can bring: an empty one and one with
\* data
PayloadsOf(metric) ==
    IF IsTraffic(metric)
    THEN { DictData(<<>>), DictData([count |-> 1, uniques |-> 1]) }
    ELSE IF metric = "referrers"
    THEN { ListData(<<>>), ListData(<<Entry("google", 1, 1)>>) }
    ELSE { ListData(<<>>), ListData(<<Entry("/README.md", 1, 1)>>) }

\* What future.result() gives: the value _make_request returned (a payload
\* or None), or the exception it raised: the transport error of the last
\* attempt (line 81) or the HTTPError of raise_for_status (line 77)
Returned(data) == [kind |-> "returned", cause |-> "", data |-> data]

Failed(cause) == [kind |-> "raised", cause |-> cause, data |-> NullData]

NoOutcome == [kind |-> "pending", cause |-> "", data |-> NullData]

Outcomes(metric) ==
    { Returned(p) : p \in PayloadsOf(metric) \cup {NullData} }
    \cup { Failed(c) : c \in {"transport", "status"} }

\* data.get(key, 0) with the default replaced by a missing value
GetOrNaN(dict, key) == IF key \in DOMAIN dict THEN dict[key] ELSE NaN

\* data.get(key, 0)
GetOrZero(dict, key) == IF key \in DOMAIN dict THEN dict[key] ELSE 0

\* the bare suffix as the key
FieldNameBare(metric, suffix) == suffix

\* f"{metric_name}_count", f"{metric_name}_uniques"
FieldName(metric, suffix) == metric \o "_" \o suffix

\* the except branch leaving daily_data as it is
ExceptFieldsSkipped(metric) == <<>>

\* lines 216-222: what the except branch puts into daily_data
ExceptFields(metric) ==
    IF IsTraffic(metric)
    THEN (FieldName(metric, "count") :> 0) @@ (FieldName(metric, "uniques") :> 0)
    ELSE Process(metric, NullData)

\* lines 207-213: what the try branch puts into daily_data
TryFields(metric, data) ==
    IF IsTraffic(metric)
    THEN (FieldName(metric, "count") :> GetOrZero(data.fields, "count"))
         @@ (FieldName(metric, "uniques") :> GetOrZero(data.fields, "uniques"))
    ELSE Process(metric, data)

\* the try block raises: future.result() re-raises the fetch's exception
\* (line 204), and None.get raises AttributeError (line 208)
TryRaises(metric, outcome) ==
    \/ outcome.kind = "raised"
    \/ IsTraffic(metric) /\ outcome.data.tag = "null"

\* line 205 is reached whenever future.result() returns
Saves(outcome) == outcome.kind = "returned"

\* lines 203-222: the fields one future adds to daily_data
MergedFields(metric, outcome) ==
    IF TryRaises(metric, outcome)
    THEN ExceptFields(metric)
    ELSE TryFields(metric, outcome.data)

\* dict.update / item assignment: new values replace old ones
UpdateDict(dict, new) == new @@ dict

\* the columns of daily_data that the summary table of this model holds
Summarised(dd) ==
    [timestamp |-> dd.timestamp, repository |-> dd.repository,
     fields |-> [f \in Fields \cap DOMAIN dd |-> dd[f]]]

NoRawFiles == [m \in DataTypes |-> [d \in Dates |-> NoFile]]

Range(seq) == { seq[i] : i \in 1..Len(seq) }

\* lines 184-199 of a fresh process: the date is read, daily_data is
\* created and the four fetches are submitted to the pool
BeginRun(d) ==
    /\ today' = d
    /\ daily' = [timestamp |-> d, repository |-> CollectRepo]
    /\ pending' = MetricOrder
    /\ running' = [w \in Workers |-> Idle]
    /\ finished' = [m \in DataTypes |-> NoOutcome]
    /\ merged' = <<>>
    /\ cpc' = "collecting"
    /\ exitCode' = -1
    /\ nRuns' = nRuns + 1
    /\ UNCHANGED <<rawStore, summaryVars>>

\* main() of the first process
StartRun(d) ==
    /\ cpc = "idle"
    /\ BeginRun(d)

\* the payload with data among those a fetch of a metric can bring
DataPayload(metric) ==
    CHOOSE p \in PayloadsOf(metric) :
        IF IsTraffic(metric) THEN p.fields # <<>> ELSE p.rows # <<>>

\* main() of a later process, on the same day or a later one.  The run is
\* repeated after a run all of whose fetches brought data.
Rerun(d) ==
    /\ cpc = "exited"
    /\ nRuns < MaxRuns
    /\ d >= today
    /\ \A m \in DataTypes : finished[m] = Returned(DataPayload(m))
    /\ BeginRun(d)

\* a free worker thread takes the next submitted fetch
WorkerTakes(w) ==
    /\ cpc = "collecting"
    /\ running[w] = Idle
    /\ pending # <<>>
    /\ running' = [running EXCEPT ![w] = Head(pending)]
    /\ pending' = Tail(pending)
    /\ UNCHANGED <<cpc, today, finished, merged, daily, rawStore, exitCode,
                   nRuns, summaryVars>>

\* _make_request ends in a worker thread: its future is done
WorkerFinishes(w, outcome) ==
    /\ cpc = "collecting"
    /\ running[w] # Idle
    /\ outcome \in Outcomes(running[w])
    /\ finished' = [finished EXCEPT ![running[w]] = outcome]
    /\ running' = [running EXCEPT ![w] = Idle]
    /\ UNCHANGED <<cpc, today, pending, merged, daily, rawStore, exitCode,
                   nRuns, summaryVars>>

\* lines 201-222: one iteration of the as_completed loop, in the main thread
HandleCompleted(metric) ==
    /\ cpc = "collecting"
    /\ finished[metric] # NoOutcome
    /\ metric \notin Range(merged)
    /\ LET outcome == finished[metric]
       IN /\ rawStore' = IF Saves(outcome)
                         THEN [rawStore EXCEPT
                                 ![metric][today] = RawFile(outcome.data)]
                         ELSE rawStore
          /\ daily' = UpdateDict(daily, MergedFields(metric, outcome))
    /\ merged' = Append(merged, metric)
    /\ UNCHANGED <<cpc, today, pending, running, finished, exitCode, nRuns,
                   summaryVars>>

\* line 224 and the return of main(): the loop is over, the record is
\* upserted and the process exits with status 0
FinishRun ==
    /\ cpc = "collecting"
    /\ Len(merged) = Len(MetricOrder)
    /\ Upsert(Summarised(daily))
    /\ cpc' = "exited"
    /\ exitCode' = 0
    /\ UNCHANGED <<today, pending, running, finished, merged, daily, rawStore,
                   nRuns>>

CollectInit ==
    /\ cpc = "idle"
    /\ today = 1
    /\ pending = <<>>
    /\ running = [w \in Workers |-> Idle]
    /\ finished = [m \in DataTypes |-> NoOutcome]
    /\ merged = <<>>
    /\ daily = [timestamp |-> 1, repository |-> CollectRepo]
    /\ rawStore = NoRawFiles
    /\ exitCode = -1
    /\ nRuns = 0

CollectNext ==
    \/ \E d \in Dates : StartRun(d)
          /\ UNCHANGED <<combineVars, fetchVars, reduceVars>>
    \/ \E w \in Workers : WorkerTakes(w)
          /\ UNCHANGED <<combineVars, fetchVars, reduceVars>>
    \/ \E w \in Workers : \E m \in DataTypes : \E o \in Outcomes(m) :
          WorkerFinishes(w, o)
          /\ UNCHANGED <<combineVars, fetchVars, reduceVars>>
    \/ \E m \in DataTypes : HandleCompleted(m)
          /\ UNCHANGED <<combineVars, fetchVars, reduceVars>>
    \/ FinishRun /\ UNCHANGED <<combineVars, fetchVars, reduceVars>>

RecollectNext ==
    \/ CollectNext
    \/ \E d \in Dates : Rerun(d)
          /\ UNCHANGED <<combineVars, fetchVars, reduceVars>>

(***************************************************************************)
(* Claims about the collection run                                         *)
(***************************************************************************)

\* the keys of daily_data that belong to a metric
MetricFields(metric) ==
    IF metric = "views" THEN {"views_count", "views_uniques"}
    ELSE IF metric = "clones" THEN {"clones_count", "clones_uniques"}
    ELSE IF metric = "referrers"
    THEN {"top_referrer", "top_referrer_count", "top_referrer_uniques",
          "total_referrer_count", "total_referrer_uniques",
          "distinct_referrers"}
    ELSE {"top_path", "top_path_count", "top_path_uniques",
          "total_path_count", "total_path_uniques",
          "readme_views", "readme_uniques", "distinct_paths"}

\* what daily_data holds under the keys of a metric
FieldsIn(dd, metric) == [f \in (DOMAIN dd) \cap MetricFields(metric) |-> dd[f]]

\* the all-zero record of a metric: counts 0, top entry 'none'
ZeroShape(metric) ==
    IF metric = "views" THEN [views_count |-> 0, views_uniques |-> 0]
    ELSE IF metric = "clones" THEN [clones_count |-> 0, clones_uniques |-> 0]
    ELSE IF metric = "referrers"
    THEN [top_referrer |-> "none", top_referrer_count |-> 0,
          top_referrer_uniques |-> 0, total_referrer_count |-> 0,
          total_referrer_uniques |-> 0, distinct_referrers |-> 0]
    ELSE [top_path |-> "none", top_path_count |-> 0, top_path_uniques |-> 0,
          total_path_count |-> 0, total_path_uniques |-> 0,
          readme_views |-> 0, readme_uniques |-> 0, distinct_paths |-> 0]

FetchFailed(metric) == finished[metric].kind = "raised"

ReturnedNull(metric) ==
    finished[metric].kind = "returned" /\ finished[metric].data.tag = "null"

ReturnedEmpty(metric) ==
    /\ finished[metric].kind = "returned"
    /\ \/ finished[metric].data.tag = "dict" /\ finished[metric].data.fields = <<>>
       \/ finished[metric].data.tag = "list" /\ finished[metric].data.rows = <<>>

ReturnedData(metric) ==
    /\ finished[metric].kind = "returned"
    /\ ~ReturnedNull(metric)
    /\ ~ReturnedEmpty(metric)

\* the values of a payload as the record is to carry them: the payload's
\* own count and uniques for views and clones, the reducer's result for
\* referrers and paths
ReducedFrom(metric, data) ==
    IF metric = "views"
    THEN [views_count |-> data.fields.count, views_uniques |-> data.fields.uniques]
    ELSE IF metric = "clones"
    THEN [clones_count |-> data.fields.count, clones_uniques |-> data.fields.uniques]
    ELSE Process(metric, data)

\* C12: once a metric's future has been handled, the fields of the metric
\* in daily_data are the all-zero shape whenever its fetch returned None,
\* returned an empty payload, or raised.
C12_SameZeroShape ==
    \A m \in Range(merged) :
        (ReturnedNull(m) \/ ReturnedEmpty(m) \/ FetchFailed(m))
        => FieldsIn(daily, m) = ZeroShape(m)

\* C12's case: a finished run in which one fetch returned None, one an
\* empty payload, one raised, and one brought data
C12_Witness ==
    /\ cpc = "exited"
    /\ \E m \in DataTypes : ReturnedNull(m)
    /\ \E m \in DataTypes : ReturnedEmpty(m)
    /\ \E m \in DataTypes : FetchFailed(m)
    /\ \E m \in DataTypes : ReturnedData(m) /\ FieldsIn(daily, m) # ZeroShape(m)

\* the summary table holds the row of the run's day and repository
RowWritten ==
    \E i \in 1..Len(summary.rows) :
        /\ summary.rows[i].timestamp = today
        /\ summary.rows[i].repository = CollectRepo
        /\ summary.rows[i].views_count = daily["views_count"]
        /\ summary.rows[i].clones_count = daily["clones_count"]

\* C13: a run in which the fetch of a metric raised still ends normally:
\* that metric's fields are zero-filled, every metric whose fetch brought a
\* payload carries the values reduced from that payload, and the record has
\* been upserted into the summary table.
C13_FailedFetchZeroFilled ==
    (cpc = "exited" /\ \E m \in DataTypes : FetchFailed(m))
    => /\ exitCode = 0
       /\ \A m \in DataTypes :
             /\ FetchFailed(m) => FieldsIn(daily, m) = ZeroShape(m)
             /\ ReturnedData(m)
                   => FieldsIn(daily, m) = ReducedFrom(m, finished[m].data)
       /\ nUpserts = nRuns
       /\ lastRec = Summarised(daily)
       /\ RowWritten

\* C13's case: exactly one fetch raised, on an unexpected status, and the
\* other three brought data
C13_Witness ==
    /\ cpc = "exited"
    /\ \E m \in DataTypes :
          /\ finished[m] = Failed("status")
          /\ \A n \in DataTypes \ {m} : ReturnedData(n)

\* C14: a run in which a fetch ended with the transport error of its last
\* attempt exits with a non-zero status and writes no summary row.
C14_TransportFailureFailsRun ==
    (cpc = "exited" /\ \E m \in DataTypes : finished[m] = Failed("transport"))
    => exitCode # 0 /\ nUpserts = 0

RECURSIVE Folded(_, _)
\* the fields of the metrics of a sequence, put into a dict in that order
Folded(dd, metrics) ==
    IF metrics = <<>> THEN dd
    ELSE Folded(UpdateDict(dd, MergedFields(metrics[1], finished[metrics[1]])),
                Tail(metrics))

\* C15: whichever worker ran which fetch and in whatever order the futures
\* were handled, the record of a finished run is the one obtained by
\* handling them in submission order; each handled metric has put exactly
\* its own keys into the record and no metric is handled twice; at most
\* two fetches are in flight.
C15_OrderIndependentRecord ==
    /\ cpc = "exited"
          => /\ daily = Folded([timestamp |-> today, repository |-> CollectRepo],
                               MetricOrder)
             /\ Range(merged) = DataTypes
    /\ Len(merged) = Cardinality(Range(merged))
    /\ cpc # "idle"
          => /\ DOMAIN daily = {"timestamp", "repository"}
                     \cup UNION { MetricFields(m) : m \in Range(merged) }
             /\ \A m \in Range(merged) :
                   FieldsIn(daily, m) = MergedFields(m, finished[m])
    /\ Cardinality({ w \in Workers : running[w] # Idle }) <= 2
    /\ \A w \in Workers : running[w] # Idle =>
          /\ finished[running[w]] = NoOutcome
          /\ \A v \in Workers \ {w} : running[v] # running[w]

\* C15's case: a finished run whose futures were handled in the reverse of
\* the submission order, with views and clones bringing different values
C15_Witness ==
    /\ cpc = "exited"
    /\ merged = <<"paths", "referrers", "clones", "views">>
    /\ ReturnedData("views")
    /\ ReturnedEmpty("clones")
    /\ ReturnedData("paths")

\* C18: a snapshot file that exists is never changed by a later step.
C18_SnapshotsImmutable ==
    [][\A m \in DataTypes : \A d \in Dates :
          rawStore[m][d] # NoFile => rawStore'[m][d] = rawStore[m][d]]_vars

\* the collector's specifications leave the combiner's metric fixed
CombineIdle == CombineInit /\ dataType = "views"

Init == SummaryInit /\ CombineInit /\ FetchInit /\ ReduceInit /\ CollectInit

InitCollect ==
    SummaryInit /\ CombineIdle /\ FetchInit /\ ReduceInit /\ CollectInit

SpecSummary == Init /\ [][SummaryNext]_vars

SpecCombine == Init /\ [][CombineNext]_vars

SpecSnapshots == Init /\ [][SnapshotsNext]_vars

SpecFetch == Init /\ [][FetchNext]_vars

SpecReduce == Init /\ [][ReduceNext]_vars

SpecCollect == InitCollect /\ [][CollectNext]_vars

SpecRecollect == InitCollect /\ [][RecollectNext]_vars

====
